---- MODULE Spec2Model ----
(***************************************************************************)
(* Startup Intelligence Agent: the control surface (api/server.py), the    *)
(* recurring scheduler (workflow/scheduler.py), the pipeline runner        *)
(* (orchestrator/agent.py) and the record store (database/db.py).          *)
(*                                                                         *)
(* The server is one asyncio event loop.  A coroutine runs without         *)
(* interruption from one await to the next, so every action below is one   *)
(* such step.  The acquisition of workflow_lock is kept as a step of its   *)
(* own (it is an await), which only adds interleavings.                    *)
(***************************************************************************)
EXTENDS Integers, Sequences, FiniteSets, TLC

VARIABLES
    now,              \* the wall clock, datetime.now(), in seconds
    workflow_status,  \* server.py: {"running", "last_run", "error"}
    workflow_lock,    \* server.py: asyncio.Lock, its holder or "none"
    calls,            \* the two clients of /orchestrator/run and /orchestrator/collect
    racing,           \* history: the two calls in progress race from an idle server
    sched,            \* server.py `scheduler` and the fields of WorkflowScheduler
    loops,            \* the _scheduler_loop tasks that exist
    runs,             \* the pipeline executions in flight
    stopPc,           \* the /workflow/scheduler/stop handler, suspended in stop()
    trigPc,           \* the /workflow/scheduler/trigger handler, suspended in trigger_now()
    apiCalls,         \* history: calls of the control surface made so far
    ev,               \* history: the step taken last and what it answered
    wf,               \* agent.py: one execution of run_full_workflow, stage by stage
    db,               \* db.py: the rows of the five record tables, by dedup field
    ins,              \* history: the insert_* call made last and what it returned
    enriched,         \* db.py: per table and record, the rows whose is_enriched is 1
    briefings,        \* db.py: the rows of the briefings table, in rowid order
    lastSaved,        \* history: per date, the summary of the last save that committed
    br,               \* history: the briefing operation made last and what it answered
    px,               \* history: the completion text handed to the extractor and the outcome
    qry,              \* history: the recent-records query made last and its outcome
    va                \* history: the payload handed to the validation and the outcome

serverVars == <<now, workflow_status, workflow_lock, calls, racing, sched, loops, runs,
                stopPc, trigPc, ev, apiCalls>>
pipeVars == <<wf, db, ins, enriched>>
briefVars == <<briefings, lastSaved, br>>
parseVars == <<px>>
queryVars == <<qry>>
validVars == <<va>>
restVars == <<briefVars, parseVars, queryVars, validVars>>
vars == <<serverVars, pipeVars, restVars>>

----------------------------------------------------------------------------
(* Bounds of the model *)

MaxTime  == 120      \* the clock stops here
TimeStep == 60       \* one tick of the clock
MaxRuns  == 2        \* pipeline executions in flight at once
MaxLoops == 2        \* scheduler loop tasks alive at once
MaxApi   == 4        \* calls of the control surface in one behaviour
MaxBatch == 2        \* records in one batch handed to an insert_* call
MaxInserts == 3      \* insert_* calls in one behaviour of the record store
MaxWorkflows == 2    \* executions of run_full_workflow in one behaviour
MaxDates == 2        \* distinct briefing dates
MaxSaves == 3        \* save_briefing calls in one behaviour of the briefing store
MaxText == 5         \* lexemes in one completion text
MaxOver == 5         \* items a list of a payload holds beyond the greatest limit

(* Values of the program *)

Null == -1           \* Python None where the field is Optional[int] / Optional[datetime]
NoTask == 0          \* Python None for scheduled_task

Callers == {"c1", "c2"}
Other(c) == IF c = "c1" THEN "c2" ELSE "c1"
RunIds  == 1..MaxRuns
LoopIds == 1..MaxLoops

FrequencyInputs == {"hourly", "custom"}
IntervalInputs == {Null, 30, 60}
MinInterval == 60    \* Query(None, ge=60)

HOURLY_SECONDS == 3600
DAILY_SECONDS  == 86400
WEEKLY_SECONDS == 604800
IDLE_POLL_SECONDS == 60


----------------------------------------------------------------------------
(* History record of the last step *)

Ev(op, resp) ==
    [op |-> op, resp |-> resp, freq |-> "none", ivl |-> Null,
     origin |-> "none", ok |-> TRUE, t0 |-> Null, prev |-> Null, pre |-> <<>>,
     fired |-> FALSE]

\* A step that answers nothing and ends nothing
Quiet == Ev("none", 0)

----------------------------------------------------------------------------
(* Pipeline executions *)

NoRun == [origin |-> "none", begun |-> FALSE, t0 |-> Null, prev |-> Null, owner |-> 0]

NewRun(origin, begun, t0, prev, owner) ==
    [origin |-> origin, begun |-> begun, t0 |-> t0, prev |-> prev, owner |-> owner]

FreeRuns(rs) == {r \in RunIds : rs[r].origin = "none"}
FirstFree(S) == CHOOSE x \in S : \A y \in S : x <= y

ManualRuns(rs) == {r \in RunIds : rs[r].origin \in {"run", "collect"}}
InFlight(rs) == {r \in RunIds : rs[r].origin # "none" /\ rs[r].begun}

----------------------------------------------------------------------------
(* WorkflowScheduler *)

NoScheduler ==
    [exists |-> FALSE, is_running |-> FALSE, enabled |-> FALSE, frequency |-> "none",
     interval_seconds |-> Null, last_run |-> Null, next_run |-> Null,
     scheduled_task |-> NoTask]

NoLoop == [pc |-> "free", wake |-> Null, cancel |-> FALSE]

FreeLoops(ls) == {l \in LoopIds : ls[l].pc = "free"}

\* `not interval_seconds`: None and 0 are both falsy
Falsy(i) == i = Null \/ i = 0

\* WorkflowScheduler._calculate_next_run
CalculateNextRun(s, t) ==
    IF Falsy(s.interval_seconds)
    THEN [s EXCEPT !.next_run = Null]
    ELSE LET base_time == IF s.last_run # Null THEN s.last_run ELSE t
         IN  [s EXCEPT !.next_run = base_time + s.interval_seconds]

\* The frequency table of WorkflowScheduler.start; Null where start raises ValueError
IntervalFor(frequency, interval_seconds) ==
    CASE frequency = "hourly" -> HOURLY_SECONDS
      [] frequency = "daily"  -> DAILY_SECONDS
      [] frequency = "weekly" -> WEEKLY_SECONDS
      [] OTHER -> IF Falsy(interval_seconds) THEN Null ELSE interval_seconds

\* _run_workflow up to its await: last_run is set before the runner is called
BeginRun(s, t) == [s EXCEPT !.last_run = t]

----------------------------------------------------------------------------
(* The record store: database/db.py *)

\* A record is told apart by its dedup field (news.url, funding.link,
\* launches.link, github_repositories.full_name, github_signals.repository_name);
\* record.get(field) is None when the collector sent none.
NoKey == "NULL"
Keys == {"k1", "k2"}
Records == Keys \cup {NoKey}
Kinds == {"news", "funding", "launches", "github_repositories", "github_signals"}

Batches == UNION {[1..n -> Records] : n \in 0..MaxBatch}

\* A table is the number of rows it holds for each record
EmptyTable == [r \in Records |-> 0]
EmptyDb == [k \in Kinds |-> EmptyTable]

\* Does the INSERT of the record add a row (cursor.rowcount > 0)?
\*   news.url, github_repositories.full_name : UNIQUE NOT NULL, INSERT OR IGNORE
\*   funding.link, launches.link             : UNIQUE and nullable, INSERT OR IGNORE
\*                                             (a UNIQUE column holds any number of NULLs)
\*   github_signals                          : no UNIQUE column, plain INSERT
RowAdded(kind, table, rec) ==
    CASE kind \in {"news", "github_repositories"} -> rec # NoKey /\ table[rec] = 0
      [] kind \in {"funding", "launches"} -> rec = NoKey \/ table[rec] = 0
      [] OTHER -> TRUE

\* The for-loop of an insert_* function: [table after, inserted]
RECURSIVE InsertRows(_, _, _)
InsertRows(kind, table, batch) ==
    IF batch = <<>> THEN [table |-> table, inserted |-> 0]
    ELSE LET rec == Head(batch)
             added == RowAdded(kind, table, rec)
             rest == InsertRows(kind, IF added THEN [table EXCEPT ![rec] = @ + 1] ELSE table,
                                Tail(batch))
         IN [table |-> rest.table, inserted |-> rest.inserted + (IF added THEN 1 ELSE 0)]

\* One insert_* call.  get_connection() and conn.commit() stand outside the
\* per-record try: a fault of the storage there (sqlite3.OperationalError)
\* leaves the function as an exception and nothing is committed.
InsertCall(kind, table, batch, fault) ==
    IF fault THEN [table |-> table, inserted |-> 0, raised |-> TRUE]
    ELSE LET r == InsertRows(kind, table, batch)
         IN [table |-> r.table, inserted |-> r.inserted, raised |-> FALSE]

\* The tables with an is_enriched column and an update_*_enrichment function
Enrichable == Kinds \ {"github_signals"}

\* An INSERT OR REPLACE: the row in conflict is deleted and the new row starts
\* with is_enriched at its default 0
FlagsAfterReplace(flags, table, batch) ==
    [r \in Records |->
        IF r # NoKey /\ table[r] > 0 /\ \E i \in 1..Len(batch) : batch[i] = r
        THEN 0 ELSE flags[r]]

\* The is_enriched flags of a table after an insert_* call: INSERT OR IGNORE and
\* the plain INSERT leave every stored row as it is, and a new row has the default 0
FlagsAfterInsert(flags, table, batch) == flags

\* The row an update_*_enrichment call names by its id: one not enriched yet, one
\* enriched already, or none
Hits == {"new", "again", "none"}
HasRow(flags, table, rec, hit) ==
    CASE hit = "new" -> table[rec] > flags[rec]
      [] hit = "again" -> flags[rec] > 0
      [] OTHER -> TRUE

\* UPDATE ... SET is_enriched = 1 WHERE id = ?
SetEnriched(flags, rec, hit) ==
    IF hit = "new" THEN [flags EXCEPT ![rec] = @ + 1] ELSE flags

NoInsert == [n |-> 0, kind |-> "none", batch |-> <<>>, before |-> EmptyTable,
             inserted |-> 0, raised |-> FALSE]

----------------------------------------------------------------------------
(* The pipeline runner: orchestrator/agent.py *)

Collectors == {"news", "startup", "github"}
CollectorOutcomes == {"data", "unreachable", "throws"}
CollectorPayloads == {<<>>, <<"k1">>}
CompletionStates == {"ok", "unconfigured", "down"}

\* A collector's dict: the keys it carries and its record lists; exc marks the
\* exception that asyncio.gather(return_exceptions=True) hands back in its place
NewsDict(keys, articles) == [exc |-> FALSE, keys |-> keys, articles |-> articles]
StartupDict(funding, launches) ==
    [exc |-> FALSE, keys |-> {"funding", "launches"}, funding |-> funding, launches |-> launches]
GithubDict(trending, signals) ==
    [exc |-> FALSE, keys |-> {"trending", "signals"}, trending |-> trending, signals |-> signals]
NewsException == [exc |-> TRUE, keys |-> {}, articles |-> <<>>]
StartupException == [exc |-> TRUE, keys |-> {}, funding |-> <<>>, launches |-> <<>>]
GithubException == [exc |-> TRUE, keys |-> {}, trending |-> <<>>, signals |-> <<>>]

\* "unreachable" is an httpx.RequestError / HTTPStatusError, caught by the
\* collector itself; "throws" is any other exception, which leaves it
collect_from_news_agent(outcome, articles) ==
    CASE outcome = "data" -> NewsDict({"sources", "total"}, articles)
      [] outcome = "unreachable" -> NewsDict({"error", "sources", "total"}, <<>>)
      [] OTHER -> NewsException

collect_from_startup_api_agent(outcome, funding, launches) ==
    CASE outcome = "data" -> StartupDict(funding, launches)
      [] outcome = "unreachable" -> StartupDict(<<>>, <<>>)
      [] OTHER -> StartupException

collect_from_github_agent(outcome, trending, signals) ==
    CASE outcome = "data" -> GithubDict(trending, signals)
      [] outcome = "unreachable" -> GithubDict(<<>>, <<>>)
      [] OTHER -> GithubException

Fetch(c, outcome, b1, b2) ==
    CASE c = "news" -> collect_from_news_agent(outcome, b1)
      [] c = "startup" -> collect_from_startup_api_agent(outcome, b1, b2)
      [] OTHER -> collect_from_github_agent(outcome, b1, b2)

\* collect_all_data after the gather: an exception is replaced, a dict is kept
collect_all_data(news_data, startup_data, github_data) ==
    [news |-> IF news_data.exc THEN NewsDict({"error", "sources", "total"}, <<>>)
              ELSE news_data,
     startup |-> IF startup_data.exc THEN StartupDict(<<>>, <<>>) ELSE startup_data,
     github |-> IF github_data.exc THEN GithubDict(<<>>, <<>>) ELSE github_data]

\* The batches the Store stage hands to the insert_* functions, in call order
StoreOrder == <<"news", "funding", "launches", "github_repositories", "github_signals">>
BatchOf(collected, kind) ==
    CASE kind = "news" -> collected.news.articles
      [] kind = "funding" -> collected.startup.funding
      [] kind = "launches" -> collected.startup.launches
      [] kind = "github_repositories" -> collected.github.trending
      [] OTHER -> collected.github.signals

NoCounts == [k \in Kinds |-> 0]

\* store_news_articles, store_startup_signals, store_github_signals from the
\* i-th insert on: an empty list is not handed to the store (`if articles:`,
\* `... if funding_rounds else 0`); the failAt-th insert meets a storage fault.
RECURSIVE StoreStage(_, _, _, _)
StoreStage(i, d, collected, failAt) ==
    IF i > Len(StoreOrder) THEN [db |-> d, inserted |-> NoCounts, raised |-> FALSE]
    ELSE LET kind == StoreOrder[i]
             batch == BatchOf(collected, kind)
         IN IF batch = <<>> THEN StoreStage(i + 1, d, collected, failAt)
            ELSE LET call == InsertCall(kind, d[kind], batch, failAt = i)
                 IN IF call.raised
                    THEN [db |-> d, inserted |-> NoCounts, raised |-> TRUE]
                    ELSE LET rest == StoreStage(i + 1, [d EXCEPT ![kind] = call.table],
                                                collected, failAt)
                         IN [db |-> rest.db,
                             inserted |-> [rest.inserted EXCEPT ![kind] = call.inserted],
                             raised |-> rest.raised]

\* summary_text: the two summaries create_briefing can give, or Python None
NoText == "None"
Summaries == {"completion", "fallback"}
SummaryInputs == Summaries \cup {NoText}

\* analyze_recent_data once its reads of the store are done: llm.complete raises
\* ValueError (no API key) or another exception, both caught
analyze_recent_data(completion) ==
    IF completion = "ok" THEN [status |-> "success", results |-> "parsed"]
    ELSE [status |-> "error", results |-> "empty"]

\* _generate_summary without its except branches: no completion, no summary
create_briefing_no_fallback(completion) ==
    [summary |-> IF completion = "ok" THEN "completion" ELSE NoText]

\* _generate_summary: the completion's text, or _generate_fallback_summary
create_briefing(completion) ==
    [summary |-> IF completion = "ok" THEN "completion" ELSE "fallback"]

\* The dict run_full_workflow returns
NoResult == [keys |-> {}, status |-> "none", data_collected |-> NoCounts]
WorkflowResult(inserted) ==
    [keys |-> {"status", "duration_seconds", "workflow", "data_collected",
               "briefing_date", "briefing"},
     status |-> "success",
     data_collected |-> inserted]

NoCollected == [news |-> NewsDict({}, <<>>), startup |-> StartupDict(<<>>, <<>>),
                github |-> GithubDict(<<>>, <<>>)]

IdleWorkflow ==
    [pc |-> "idle", n |-> 0, completion |-> "ok",
     outcome |-> [c \in Collectors |-> "pending"],
     fetched |-> NoCollected, collected |-> NoCollected,
     inserted |-> NoCounts, analysis |-> "none", results |-> "none", summary |-> "none",
     saved |-> FALSE, storeFault |-> FALSE,
     failed |-> "none", done |-> "no", result |-> NoResult]

----------------------------------------------------------------------------
(* The extractor and the validation of the analysis: analysis/agent.py *)

\* A completion text is its sequence of non-blank lexemes: the fence "```json"
\* (FJ), the fence "```" (F), the braces, a member whose value is a list of objects
\* (t, as "trends": [{..}]), a member whose value is no list (b, as
\* "competitor_moves": 5), a JSON value that is no object (n, as [1]) and prose (x).
\* Blanks are left out: strip() and json.loads both ignore them.
Lexemes == {"FJ", "F", "{", "}", "t", "b", "n", "x"}
Texts == UNION {[1..n -> Lexemes] : n \in 0..MaxText}

CanonicalKeys == {"trends", "competitor_moves", "opportunities_for_founders",
                  "opportunities_for_investors"}

\* A parsed JSON value: its Python type, the keys of a dict, the number of items its
\* lists hold, and whether a canonical key holds something that is no list of dicts
Payload(type, keys, items, bad) ==
    [type |-> type, keys |-> keys, items |-> items, bad |-> bad]
EmptySchema == Payload("dict", CanonicalKeys, 0, FALSE)
NoPayload == Payload("none", {}, 0, FALSE)

\* str.find(sub, start) over lexemes: the first position from `start` on that holds
\* one of `subs`, 0 for -1
Find(text, subs, start) ==
    LET hits == {i \in start..Len(text) : text[i] \in subs}
    IN  IF hits = {} THEN 0 ELSE CHOOSE i \in hits : \A j \in hits : i <= j

\* str.rfind(sub)
RFind(text, subs) ==
    LET hits == {i \in 1..Len(text) : text[i] \in subs}
    IN  IF hits = {} THEN 0 ELSE CHOOSE i \in hits : \A j \in hits : i >= j

\* "```" is a prefix of "```json": a search for "```" finds either fence
AnyFence == {"F", "FJ"}

\* The text between an opening fence at `open` and the next fence, when there is one
Fenced(text, open) ==
    LET json_start == open + 1
        json_end == Find(text, AnyFence, json_start)
    IN  IF json_end # 0
        THEN [found |-> TRUE, json_str |-> SubSeq(text, json_start, json_end - 1)]
        ELSE [found |-> FALSE, json_str |-> <<>>]

\* The three strategies of _parse_llm_response, tried in the order of the code
Candidate(text) ==
    LET block == IF Find(text, {"FJ"}, 1) # 0 THEN Fenced(text, Find(text, {"FJ"}, 1))
                 ELSE IF Find(text, AnyFence, 1) # 0
                      THEN Fenced(text, Find(text, AnyFence, 1))
                      ELSE [found |-> FALSE, json_str |-> <<>>]
        json_start == Find(text, {"{"}, 1)
        json_end == RFind(text, {"}"})
    IN  IF block.found THEN block
        ELSE IF json_start # 0 /\ json_end # 0 /\ json_end > json_start
             THEN [found |-> TRUE, json_str |-> SubSeq(text, json_start, json_end)]
             ELSE [found |-> FALSE, json_str |-> <<>>]

\* json.loads: an object of members, or a value that is no object; everything
\* else is a JSONDecodeError
JsonLoads(json_str) ==
    LET n == Len(json_str)
        inner == IF n >= 2 THEN SubSeq(json_str, 2, n - 1) ELSE <<>>
        members == {inner[i] : i \in 1..Len(inner)}
    IN  IF n >= 2 /\ json_str[1] = "{" /\ json_str[n] = "}" /\ members \subseteq {"t", "b"}
        THEN [ok |-> TRUE,
              value |-> Payload("dict",
                                {k \in {"trends", "competitor_moves"} :
                                    \/ k = "trends" /\ "t" \in members
                                    \/ k = "competitor_moves" /\ "b" \in members},
                                IF "t" \in members THEN 1 ELSE 0,
                                "b" \in members)]
        ELSE IF json_str = <<"n">>
             THEN [ok |-> TRUE, value |-> Payload("list", {}, 1, FALSE)]
             ELSE [ok |-> FALSE, value |-> NoPayload]

\* _parse_llm_response without its except branches: JSONDecodeError leaves it
parse_llm_response_no_except(response) ==
    LET c == Candidate(response)
        parsed_json == JsonLoads(c.json_str)
    IN  IF c.found /\ parsed_json.ok
        THEN [payload |-> parsed_json.value, raised |-> FALSE]
        ELSE [payload |-> NoPayload, raised |-> TRUE]

\* _parse_llm_response: the whole body is in a try; no candidate and a candidate that
\* does not parse both raise JSONDecodeError, and the handler returns the empty schema
parse_llm_response(response) ==
    LET c == Candidate(response)
        parsed_json == JsonLoads(c.json_str)
    IN  IF c.found /\ parsed_json.ok
        THEN [payload |-> parsed_json.value, raised |-> FALSE]
        ELSE [payload |-> EmptySchema, raised |-> FALSE]

\* _validate_analysis_results: results.get raises AttributeError on a value that is
\* no dict, the slice or the stamping of created_at raises TypeError on a value
\* that is no list of dicts; a missing key defaults to []
validate_analysis_results(results) ==
    IF results.type # "dict" \/ results.bad
    THEN [validated |-> NoPayload, raised |-> TRUE]
    ELSE [validated |-> Payload("dict", CanonicalKeys, results.items, FALSE),
          raised |-> FALSE]

\* The try block of analyze_recent_data on a completion text: `except Exception`
\* answers status error with the empty schema
AnalyzeText(response) ==
    LET analysis_results == parse_llm_response(response)
        v == validate_analysis_results(analysis_results.payload)
    IN  IF analysis_results.raised
        THEN [status |-> "none", results |-> NoPayload, raised |-> TRUE]
        ELSE IF v.raised
             THEN [status |-> "error", results |-> EmptySchema, raised |-> FALSE]
             ELSE [status |-> "success", results |-> v.validated, raised |-> FALSE]

NoParse ==
    [op |-> "none", text |-> <<>>, found |-> FALSE, json_str |-> <<>>,
     payload |-> NoPayload, raised |-> FALSE, status |-> "none", results |-> NoPayload]

----------------------------------------------------------------------------
(* The validation of a parsed payload, item by item: analysis/agent.py *)

\* The top-level keys a payload may hold: the canonical four and one other
PayloadKeys == CanonicalKeys \cup {"notes"}

\* The slice limits of _validate_analysis_results
Limit(category) ==
    IF category \in {"trends", "competitor_moves"} THEN 20 ELSE 15

\* A created_at the completion wrote itself: an instant before the server started
GivenStamp == 0 - TimeStep

\* An element of a list: a JSON object with an identity, with or without the key
\* "created_at" (whose value may be null), or a JSON value that is no object
Item(id, has_created_at, created_at) ==
    [type |-> "dict", id |-> id, has_created_at |-> has_created_at,
     created_at |-> created_at]
Scalar(id) == [type |-> "int", id |-> id, has_created_at |-> FALSE, created_at |-> Null]

\* The n-th object of a list from the completion: objects without "created_at",
\* with a value for it and with null for it take turns
CompletionItem(n) ==
    CASE n % 3 = 1 -> Item(n, FALSE, Null)
      [] n % 3 = 2 -> Item(n, TRUE, GivenStamp)
      [] OTHER -> Item(n, TRUE, Null)

\* What a payload holds under a key: nothing, null, or a list
AbsentMember == [kind |-> "absent", items |-> <<>>]
NullMember == [kind |-> "null", items |-> <<>>]
ListMember(items) == [kind |-> "list", items |-> items]

ListLengths == {0, 3} \cup {Limit(k) + d : k \in CanonicalKeys, d \in {0, 1}}
                      \cup {Limit("trends") + MaxOver}
MemberInputs ==
    {AbsentMember, NullMember, ListMember(<<Scalar(1)>>)}
        \cup {ListMember([n \in 1..len |-> CompletionItem(n)]) : len \in ListLengths}

\* A value json.loads returned: an object with members, or an array
ObjectPayload(members) == [type |-> "dict", members |-> members]
ArrayPayload == [type |-> "list", members |-> [k \in PayloadKeys |-> AbsentMember]]
ParsedPayloads ==
    {ObjectPayload(members) :
        members \in {f \in [PayloadKeys -> MemberInputs] :
                        f["notes"] \in {AbsentMember, NullMember}}}
        \cup {ArrayPayload}

\* results.get(category, [])[:limit]
Slice(member, limit) ==
    IF member.kind = "absent" THEN <<>>
    ELSE SubSeq(member.items, 1, IF Len(member.items) < limit THEN Len(member.items)
                                 ELSE limit)

\* `if "created_at" not in item: item["created_at"] = datetime.now().isoformat()`
Stamp(item, t) ==
    IF item.has_created_at THEN item
    ELSE [item EXCEPT !.has_created_at = TRUE, !.created_at = t]

\* _validate_analysis_results at time t.  results.get on a value that is no dict
\* raises AttributeError, the slice of None raises TypeError, and so does the test
\* `"created_at" not in item` on an item that is no dict: `raised`.
ValidateItems(results, t) ==
    IF results.type # "dict"
    THEN [validated |-> ArrayPayload, raised |-> TRUE]
    ELSE IF \E k \in CanonicalKeys : results.members[k].kind = "null"
    THEN [validated |-> ArrayPayload, raised |-> TRUE]
    ELSE LET cut == [k \in CanonicalKeys |-> Slice(results.members[k], Limit(k))]
         IN  IF \E k \in CanonicalKeys : \E i \in 1..Len(cut[k]) : cut[k][i].type # "dict"
             THEN [validated |-> ArrayPayload, raised |-> TRUE]
             ELSE [validated |->
                      ObjectPayload([k \in PayloadKeys |->
                          IF k \in CanonicalKeys
                          THEN ListMember([i \in 1..Len(cut[k]) |-> Stamp(cut[k][i], t)])
                          ELSE AbsentMember]),
                   raised |-> FALSE]

NoValidation ==
    [op |-> "none", results |-> ArrayPayload, raised |-> FALSE, validated |-> ArrayPayload,
     at |-> Null, saved |-> FALSE, status |-> "none"]

----------------------------------------------------------------------------
(* The recent-records queries: database/db.py *)

\* A Python value handed to a query: an int, a str, or None
PyInt(v) == [type |-> "int", v |-> v]
PyStr == [type |-> "str", v |-> 0]
PyNone == [type |-> "none", v |-> 0]

MAX_DAYS == 365
MAX_LIMIT == 10000

DaysInputs == {PyInt(v) : v \in {-1, 0, 1, MAX_DAYS, MAX_DAYS + 1}} \cup {PyStr}
LimitInputs == {PyInt(v) : v \in {-1, 0, 1, MAX_LIMIT, MAX_LIMIT + 1}} \cup {PyStr, PyNone}

\* _validate_days without its upper test
validate_days_no_upper(days) ==
    [raised |-> days.type # "int" \/ days.v < 1]

\* Database._validate_days: `raised` is ValueError
validate_days(days) ==
    [raised |-> days.type # "int" \/ days.v < 1 \/ days.v > MAX_DAYS]

\* Database._validate_limit: None passes
validate_limit(limit) ==
    [raised |-> IF limit = PyNone THEN FALSE
                ELSE limit.type # "int" \/ limit.v < 1 \/ limit.v > MAX_LIMIT]

\* The body shared by the five get_recent_* functions: both validations, then
\* get_connection() and the SELECT
GetRecent(kind, days, limit) ==
    IF validate_days(days).raised \/ validate_limit(limit).raised
    THEN [kind |-> kind, days |-> days, limit |-> limit, raised |-> TRUE, read |-> FALSE]
    ELSE [kind |-> kind, days |-> days, limit |-> limit, raised |-> FALSE, read |-> TRUE]

NoQuery == [kind |-> "none", days |-> PyNone, limit |-> PyNone, raised |-> FALSE,
            read |-> FALSE]

----------------------------------------------------------------------------
(* The briefings table: database/db.py *)

\* briefing_date is a "%Y-%m-%d" string; such strings order as the days they name,
\* so a date is the number of its day.  Malformed is a path segment strptime rejects.
Dates == 1..MaxDates
Malformed == 0
Today == 1           \* datetime.now().strftime("%Y-%m-%d") while the clock stands

BriefingRow(briefing_date, summary_text) ==
    [briefing_date |-> briefing_date, summary_text |-> summary_text]
\* fetchone() found nothing
NoRow == BriefingRow(Malformed, NoText)

RowsOf(rows, briefing_date) ==
    SelectSeq(rows, LAMBDA r : r.briefing_date = briefing_date)

\* A plain INSERT into a table without the UNIQUE constraint on briefing_date
InsertKeepsOld(rows, briefing_date, summary_text) ==
    Append(rows, BriefingRow(briefing_date, summary_text))

\* INSERT OR REPLACE with briefing_date UNIQUE: the row in conflict is deleted and
\* the new row is added
InsertOrReplace(rows, briefing_date, summary_text) ==
    Append(SelectSeq(rows, LAMBDA r : r.briefing_date # briefing_date),
           BriefingRow(briefing_date, summary_text))

\* Database.save_briefing: it raises when the store fails and when summary_text is
\* None (NOT NULL has no REPLACE resolution without a default); nothing is committed then
SaveBriefing(rows, briefing_date, summary_text, fault) ==
    IF fault \/ summary_text = NoText
    THEN [rows |-> rows, raised |-> TRUE]
    ELSE [rows |-> InsertOrReplace(rows, briefing_date, summary_text), raised |-> FALSE]

RECURSIVE MaxDateRow(_, _)
\* ORDER BY briefing_date DESC LIMIT 1 over the rows from position i on
MaxDateRow(rows, i) ==
    IF i > Len(rows) THEN NoRow
    ELSE LET rest == MaxDateRow(rows, i + 1)
         IN  IF rest = NoRow \/ rows[i].briefing_date >= rest.briefing_date
             THEN rows[i] ELSE rest

\* Database.get_latest_briefing
get_latest_briefing(rows) == MaxDateRow(rows, 1)

\* Database.get_briefing_by_date: WHERE briefing_date = ?, fetchone()
get_briefing_by_date(rows, date) ==
    IF RowsOf(rows, date) = <<>> THEN NoRow ELSE RowsOf(rows, date)[1]

NoBriefingOp ==
    [n |-> 0, op |-> "none", date |-> Malformed, text |-> NoText, raised |-> FALSE,
     resp |-> 0, body |-> NoRow, before |-> <<>>]

\* The state after construction, but for what the completion will return
InitServer ==
    /\ now = 0
    /\ workflow_status = [running |-> FALSE, last_run |-> Null, error |-> "none"]
    /\ workflow_lock = "none"
    /\ calls = [c \in Callers |-> [pc |-> "idle", kind |-> "none", resp |-> 0, clean |-> FALSE]]
    /\ racing = FALSE
    /\ sched = NoScheduler
    /\ loops = [l \in LoopIds |-> NoLoop]
    /\ runs = [r \in RunIds |-> NoRun]
    /\ stopPc = "idle"
    /\ trigPc = "idle"
    /\ ev = Quiet
    /\ apiCalls = 0
    /\ wf = IdleWorkflow
    /\ db = EmptyDb
    /\ ins = NoInsert
    /\ enriched = EmptyDb
    /\ briefings = <<>>
    /\ lastSaved = [d \in Dates |-> NoText]
    /\ br = NoBriefingOp
    /\ qry = NoQuery

Init ==
    /\ InitServer
    /\ px = NoParse
    /\ va = NoValidation

\* One completion text of the bound is about to be returned by llm.complete
InitExtract ==
    /\ InitServer
    /\ px \in {[NoParse EXCEPT !.text = response] : response \in Texts}
    /\ va = NoValidation

\* One parsed payload of the bound is about to be handed to the validation
InitValidate ==
    /\ InitServer
    /\ px = NoParse
    /\ va \in {[NoValidation EXCEPT !.results = results] : results \in ParsedPayloads}

Tick ==
    /\ UNCHANGED <<apiCalls, pipeVars, restVars>>
    /\ now + TimeStep <= MaxTime
    /\ now' = now + TimeStep
    /\ ev' = Quiet
    /\ UNCHANGED <<workflow_status, workflow_lock, calls, racing, sched, loops, runs,
                   stopPc, trigPc>>

----------------------------------------------------------------------------
(* POST /orchestrator/run and POST /orchestrator/collect *)

\* The guard with its test left out
StatusBusyNever(ws) == FALSE

\* `if workflow_status["running"]`
StatusBusy(ws) == ws.running

\* workflow_status["running"] = True; workflow_status["error"] = None
MarkRunning(ws) == [ws EXCEPT !.running = TRUE, !.error = "none"]

\* A client issues a call; the handler reaches `async with workflow_lock`
IssueCall(c, kind) ==
    /\ apiCalls < MaxApi
    /\ apiCalls' = apiCalls + 1
    /\ UNCHANGED <<pipeVars, restVars>>
    /\ calls[c].pc = "idle"
    /\ calls' = [calls EXCEPT ![c] = [pc |-> "acquire", kind |-> kind, resp |-> 0,
                                      clean |-> ~workflow_status.running]]
    /\ racing' = (/\ calls[Other(c)].pc # "idle"
                  /\ calls[Other(c)].clean
                  /\ ~workflow_status.running)
    /\ ev' = Quiet
    /\ UNCHANGED <<now, workflow_status, workflow_lock, sched, loops, runs, stopPc, trigPc>>

AcquireLock(c) ==
    /\ UNCHANGED <<apiCalls, pipeVars, restVars>>
    /\ calls[c].pc = "acquire"
    /\ workflow_lock = "none"
    /\ workflow_lock' = c
    /\ calls' = [calls EXCEPT ![c].pc = "locked"]
    /\ ev' = Quiet
    /\ UNCHANGED <<now, workflow_status, racing, sched, loops, runs, stopPc, trigPc>>

\* The body under the lock, the release, create_task and the answer
HandleCall(c) ==
    /\ UNCHANGED <<apiCalls, pipeVars, restVars>>
    /\ calls[c].pc = "locked"
    /\ workflow_lock = c
    /\ workflow_lock' = "none"
    /\ IF StatusBusy(workflow_status)
       THEN /\ calls' = [calls EXCEPT ![c].pc = "idle", ![c].resp = 409]
            /\ ev' = Ev("HandleCall", 409)
            /\ UNCHANGED <<workflow_status, runs>>
       ELSE /\ FreeRuns(runs) # {}
            /\ workflow_status' = MarkRunning(workflow_status)
            /\ runs' = [runs EXCEPT ![FirstFree(FreeRuns(runs))] =
                            NewRun(calls[c].kind, TRUE, now, Null, 0)]
            /\ calls' = [calls EXCEPT ![c].pc = "idle", ![c].resp = 200]
            /\ ev' = Ev("HandleCall", 200)
    /\ UNCHANGED <<now, racing, sched, loops, stopPc, trigPc>>

\* GET /orchestrator/status: the handler returns the workflow_status dict; it has
\* no await and takes no lock
GetRunStatus ==
    /\ ev' = [Ev("GetRunStatus", 200) EXCEPT !.pre = workflow_status]
    /\ UNCHANGED <<now, workflow_status, workflow_lock, calls, racing, sched, loops, runs,
                   stopPc, trigPc, apiCalls, pipeVars, restVars>>

----------------------------------------------------------------------------
(* The scheduler loop *)

\* A loop that returns instead of sleeping when next_run lies ahead
LoopTopEndsWhenEarly(s, t) ==
    IF ~s.enabled
    THEN [s |-> s, loop |-> NoLoop, fire |-> FALSE]
    ELSE IF s.next_run # Null
         THEN IF s.next_run - t > 0
              THEN [s |-> s, fire |-> FALSE, loop |-> NoLoop]
              ELSE [s |-> BeginRun(s, t), fire |-> TRUE,
                    loop |-> [pc |-> "run", wake |-> Null, cancel |-> FALSE]]
         ELSE [s |-> s, fire |-> FALSE,
               loop |-> [pc |-> "poll", wake |-> t + IDLE_POLL_SECONDS, cancel |-> FALSE]]

\* One pass of `while self.enabled:` up to its first await
LoopTop(s, t) ==
    IF ~s.enabled
    THEN [s |-> s, loop |-> NoLoop, fire |-> FALSE]
    ELSE IF s.next_run # Null
         THEN IF s.next_run - t > 0
              THEN [s |-> s, fire |-> FALSE,
                    loop |-> [pc |-> "sleep", wake |-> s.next_run, cancel |-> FALSE]]
              ELSE [s |-> BeginRun(s, t), fire |-> TRUE,
                    loop |-> [pc |-> "run", wake |-> Null, cancel |-> FALSE]]
         ELSE [s |-> s, fire |-> FALSE,
               loop |-> [pc |-> "poll", wake |-> t + IDLE_POLL_SECONDS, cancel |-> FALSE]]

\* The loop task runs: its first step, or the end of a sleep
LoopStep(l) ==
    /\ UNCHANGED <<apiCalls, pipeVars, restVars>>
    /\ loops[l].pc \in {"new", "sleep", "poll"}
    /\ ~loops[l].cancel
    /\ loops[l].pc # "new" => now >= loops[l].wake
    /\ LET res == IF loops[l].pc = "sleep"
                  THEN [s |-> BeginRun(sched, now), fire |-> TRUE,
                        loop |-> [pc |-> "run", wake |-> Null, cancel |-> FALSE]]
                  ELSE LoopTop(sched, now)
       IN  /\ res.fire => FreeRuns(runs) # {}
           /\ sched' = res.s
           /\ loops' = [loops EXCEPT ![l] = res.loop]
           /\ runs' = IF res.fire
                      THEN [runs EXCEPT ![FirstFree(FreeRuns(runs))] =
                                NewRun("loop", TRUE, now, sched.last_run, l)]
                      ELSE runs
           /\ ev' = Quiet
    /\ UNCHANGED <<now, workflow_status, workflow_lock, calls, racing, stopPc, trigPc>>

\* task.cancel() is delivered: CancelledError is raised at the await the loop task
\* is suspended in, passes `except Exception` and ends the loop at `break`
LoopCancel(l) ==
    /\ UNCHANGED <<apiCalls, pipeVars, restVars>>
    /\ loops[l].pc # "free"
    /\ loops[l].cancel
    /\ LET mine == {r \in RunIds : runs[r].origin = "loop" /\ runs[r].owner = l}
       IN  /\ runs' = [r \in RunIds |-> IF r \in mine THEN NoRun ELSE runs[r]]
           /\ ev' = IF mine = {}
                    THEN Quiet
                    ELSE LET r == CHOOSE x \in mine : TRUE
                         IN  [Ev("LoopCancel", 0) EXCEPT
                                 !.origin = "loop", !.ok = FALSE, !.t0 = runs[r].t0]
    /\ loops' = [loops EXCEPT ![l] = NoLoop]
    /\ stopPc' = IF stopPc = "awaiting" THEN "resume" ELSE stopPc
    /\ UNCHANGED <<now, workflow_status, workflow_lock, calls, racing, sched, trigPc>>

----------------------------------------------------------------------------
(* The run tasks of the server and of the scheduler *)

\* The task created by run_immediately runs _run_workflow up to its await
RunBegin(r) ==
    /\ UNCHANGED <<apiCalls, pipeVars, restVars>>
    /\ runs[r].origin = "immediate"
    /\ ~runs[r].begun
    /\ sched' = BeginRun(sched, now)
    /\ runs' = [runs EXCEPT ![r].begun = TRUE, ![r].t0 = now, ![r].prev = sched.last_run]
    /\ ev' = Quiet
    /\ UNCHANGED <<now, workflow_status, workflow_lock, calls, racing, loops, stopPc, trigPc>>

\* run_workflow / run_collection with an except branch that only logs
FinishManualLogsOnly(ws, ok, t) ==
    IF ok
    THEN [ws EXCEPT !.last_run = t, !.running = FALSE]
    ELSE ws

\* run_workflow / run_collection after the orchestrator returned or raised
FinishManual(ws, ok, t) ==
    IF ok
    THEN [ws EXCEPT !.last_run = t, !.running = FALSE]
    ELSE [ws EXCEPT !.running = FALSE, !.error = "exception"]

RunEnd(r, ok) ==
    LET run == runs[r]
        e == [Ev("RunEnd", 0) EXCEPT !.origin = run.origin, !.ok = ok, !.t0 = run.t0,
                                     !.prev = run.prev]
    IN
    IF run.origin \in {"run", "collect"}
    THEN /\ workflow_status' = FinishManual(workflow_status, ok, now)
         /\ runs' = [runs EXCEPT ![r] = NoRun]
         /\ racing' = FALSE
         /\ calls' = [c \in Callers |-> [calls[c] EXCEPT !.clean = FALSE]]
         /\ ev' = e
         /\ UNCHANGED <<sched, loops, trigPc>>
    ELSE IF run.origin = "trigger"
    THEN /\ sched' = CalculateNextRun(sched, now)
         /\ runs' = [runs EXCEPT ![r] = NoRun]
         /\ trigPc' = "idle"
         /\ ev' = [e EXCEPT !.resp = 200]
         /\ UNCHANGED <<workflow_status, racing, calls, loops>>
    ELSE IF run.origin = "loop"
    THEN LET s1 == CalculateNextRun(sched, now)
             res == LoopTop(s1, now)
         IN  /\ sched' = res.s
             /\ loops' = [loops EXCEPT ![run.owner] = res.loop]
             /\ runs' = [runs EXCEPT ![r] =
                            IF res.fire THEN NewRun("loop", TRUE, now, s1.last_run, run.owner)
                                        ELSE NoRun]
             /\ ev' = [e EXCEPT !.fired = res.fire]
             /\ UNCHANGED <<workflow_status, racing, calls, trigPc>>
    ELSE /\ runs' = [runs EXCEPT ![r] = NoRun]
         /\ ev' = e
         /\ UNCHANGED <<workflow_status, racing, calls, sched, loops, trigPc>>

\* The awaited orchestrator call returns or raises.  The stages in between touch
\* the record store only and are followed one by one in SpecPipeline.
RunStep(r) ==
    /\ UNCHANGED <<apiCalls, pipeVars, restVars>>
    /\ runs[r].origin # "none"
    /\ runs[r].begun
    /\ runs[r].origin = "loop" => ~loops[runs[r].owner].cancel
    /\ \E ok \in BOOLEAN : RunEnd(r, ok)
    /\ UNCHANGED <<now, workflow_lock, stopPc>>

----------------------------------------------------------------------------
(* POST /workflow/scheduler/start, /stop, /trigger *)

\* WorkflowScheduler.start on a scheduler that is not running; `raised` is ValueError
SchedulerStart(s, frequency, interval_seconds, task, t) ==
    LET s1 == [s EXCEPT !.frequency = frequency, !.enabled = TRUE]
        iv == IntervalFor(frequency, interval_seconds)
    IN  IF iv = Null
        THEN [s |-> s1, raised |-> TRUE]
        ELSE [s |-> CalculateNextRun(
                        [s1 EXCEPT !.interval_seconds = iv, !.is_running = TRUE,
                                   !.scheduled_task = task], t),
              raised |-> FALSE]

\* The answer of start_scheduler before it calls scheduler.start: 0 when it goes on.
\* HTTPException raised inside the try is caught by `except Exception` and becomes 500.
StartPrecheck(s, frequency, interval_seconds) ==
    IF interval_seconds # Null /\ interval_seconds < MinInterval THEN 422
    ELSE IF s.exists /\ s.is_running THEN 500
    ELSE IF frequency = "custom" /\ interval_seconds = Null THEN 500
    ELSE 0

StartScheduler(frequency, interval_seconds, run_immediately) ==
    /\ apiCalls < MaxApi
    /\ apiCalls' = apiCalls + 1
    /\ UNCHANGED <<pipeVars, restVars>>
    /\ workflow_lock = "none"
    /\ LET pre == StartPrecheck(sched, frequency, interval_seconds)
           e == [Ev("StartScheduler", pre) EXCEPT !.freq = frequency,
                                                  !.ivl = interval_seconds, !.pre = sched]
       IN  IF pre # 0
           THEN /\ ev' = e
                /\ UNCHANGED <<sched, loops, runs>>
           ELSE /\ FreeLoops(loops) # {}
                /\ run_immediately => FreeRuns(runs) # {}
                /\ LET task == FirstFree(FreeLoops(loops))
                       res == SchedulerStart([sched EXCEPT !.exists = TRUE], frequency,
                                             interval_seconds, task, now)
                   IN  /\ sched' = res.s
                       /\ IF res.raised
                          THEN /\ ev' = [e EXCEPT !.resp = 500]
                               /\ UNCHANGED <<loops, runs>>
                          ELSE /\ ev' = [e EXCEPT !.resp = 200]
                               /\ loops' = [loops EXCEPT ![task] =
                                               [pc |-> "new", wake |-> Null, cancel |-> FALSE]]
                               /\ runs' = IF run_immediately
                                          THEN [runs EXCEPT ![FirstFree(FreeRuns(runs))] =
                                                   NewRun("immediate", FALSE, Null, Null, 0)]
                                          ELSE runs
    /\ UNCHANGED <<now, workflow_status, workflow_lock, calls, racing, stopPc, trigPc>>

\* stop_scheduler and WorkflowScheduler.stop up to `await self.scheduled_task`
StopScheduler ==
    /\ apiCalls < MaxApi
    /\ apiCalls' = apiCalls + 1
    /\ UNCHANGED <<pipeVars, restVars>>
    /\ stopPc = "idle"
    /\ IF ~sched.exists \/ ~sched.is_running
       THEN /\ ev' = [Ev("StopScheduler", 404) EXCEPT !.pre = sched]
            /\ UNCHANGED <<sched, loops, stopPc>>
       ELSE /\ sched' = [sched EXCEPT !.enabled = FALSE, !.is_running = FALSE]
            /\ IF sched.scheduled_task # NoTask
               THEN /\ loops' = [loops EXCEPT ![sched.scheduled_task].cancel = TRUE]
                    /\ stopPc' = "awaiting"
                    /\ ev' = Quiet
               ELSE /\ ev' = Ev("StopScheduler", 200)
                    /\ UNCHANGED <<loops, stopPc>>
    /\ UNCHANGED <<now, workflow_status, workflow_lock, calls, racing, runs, trigPc>>

\* stop() resumes after the cancelled task ended
StopResume ==
    /\ UNCHANGED <<apiCalls, pipeVars, restVars>>
    /\ stopPc = "resume"
    /\ stopPc' = "idle"
    /\ sched' = [sched EXCEPT !.scheduled_task = NoTask]
    /\ ev' = Ev("StopScheduler", 200)
    /\ UNCHANGED <<now, workflow_status, workflow_lock, calls, racing, loops, runs, trigPc>>

\* trigger_scheduled_workflow and trigger_now up to the await inside _run_workflow
TriggerNow ==
    /\ apiCalls < MaxApi
    /\ apiCalls' = apiCalls + 1
    /\ UNCHANGED <<pipeVars, restVars>>
    /\ trigPc = "idle"
    /\ IF ~sched.exists \/ ~sched.is_running
       THEN /\ ev' = [Ev("Trigger", 404) EXCEPT !.pre = sched]
            /\ UNCHANGED <<sched, runs, trigPc>>
       ELSE /\ FreeRuns(runs) # {}
            /\ sched' = BeginRun(sched, now)
            /\ runs' = [runs EXCEPT ![FirstFree(FreeRuns(runs))] =
                            NewRun("trigger", TRUE, now, sched.last_run, 0)]
            /\ trigPc' = "running"
            /\ ev' = Quiet
    /\ UNCHANGED <<now, workflow_status, workflow_lock, calls, racing, loops, stopPc>>

----------------------------------------------------------------------------

(* One execution of run_full_workflow at a time, stage by stage *)

\* The call: workflow_start is taken and the three collectors are started
WorkflowStart ==
    /\ wf.pc = "idle"
    /\ wf.n < MaxWorkflows
    /\ \E completion \in CompletionStates :
          wf' = [IdleWorkflow EXCEPT !.pc = "Collect", !.n = wf.n + 1,
                                     !.completion = completion]
    /\ UNCHANGED <<serverVars, restVars, db, ins, enriched>>

\* One collector of the gather finishes: it returns a dict or raises
CollectorReturns(c) ==
    /\ wf.pc = "Collect"
    /\ wf.outcome[c] = "pending"
    /\ \E outcome \in CollectorOutcomes, b1 \in CollectorPayloads, b2 \in CollectorPayloads :
          wf' = [wf EXCEPT !.outcome[c] = outcome,
                           !.fetched[c] = Fetch(c, outcome, b1, b2)]
    /\ UNCHANGED <<serverVars, restVars, db, ins, enriched>>

\* A gather that returns with the first collector to finish
CollectAllDataFirstCompleted ==
    /\ wf.pc = "Collect"
    /\ \E c \in Collectors : wf.outcome[c] # "pending"
    /\ wf' = [wf EXCEPT !.pc = "Store",
                        !.collected = collect_all_data(wf.fetched.news, wf.fetched.startup,
                                                       wf.fetched.github)]
    /\ UNCHANGED <<serverVars, restVars, db, ins, enriched>>

\* The gather returns once all three have finished
CollectAllData ==
    /\ wf.pc = "Collect"
    /\ \A c \in Collectors : wf.outcome[c] # "pending"
    /\ wf' = [wf EXCEPT !.pc = "Store",
                        !.collected = collect_all_data(wf.fetched.news, wf.fetched.startup,
                                                       wf.fetched.github)]
    /\ UNCHANGED <<serverVars, restVars, db, ins, enriched>>

\* An exception leaves run_full_workflow: it has no try block
Raise(w, stage) == [w EXCEPT !.pc = "idle", !.failed = stage, !.done = "raised"]
\* The exception is one of the store (sqlite3.Error)
StoreFails(w, stage) == [Raise(w, stage) EXCEPT !.storeFault = TRUE]

Store ==
    /\ wf.pc = "Store"
    /\ \E failAt \in 0..Len(StoreOrder) :
          LET st == StoreStage(1, db, wf.collected, failAt)
          IN /\ db' = st.db
             /\ wf' = IF st.raised THEN StoreFails(wf, "Store")
                      ELSE [wf EXCEPT !.pc = "Enrich", !.inserted = st.inserted]
    /\ UNCHANGED <<serverVars, restVars, ins, enriched>>

\* enrichment_agent.enrich_recent_data: a degraded stage still returns
Enrich ==
    /\ wf.pc = "Enrich"
    /\ wf' = [wf EXCEPT !.pc = "Analyze"]
    /\ UNCHANGED <<serverVars, restVars, db, ins, enriched>>

\* analyze_recent_data reads the store before its try block
Analyze ==
    /\ wf.pc = "Analyze"
    /\ \E fault \in BOOLEAN :
          wf' = IF fault THEN StoreFails(wf, "Analyze")
                ELSE [wf EXCEPT !.pc = "Summarize",
                                !.analysis = analyze_recent_data(wf.completion).status,
                                !.results = analyze_recent_data(wf.completion).results]
    /\ UNCHANGED <<serverVars, restVars, db, ins, enriched>>

\* create_briefing reads the store and has no try block of its own
Summarize ==
    /\ wf.pc = "Summarize"
    /\ \E fault \in BOOLEAN :
          wf' = IF fault THEN StoreFails(wf, "Summarize")
                ELSE [wf EXCEPT !.pc = "PersistBriefing",
                                !.summary = create_briefing(wf.completion).summary]
    /\ UNCHANGED <<serverVars, restVars, db, ins, enriched>>

\* db.save_briefing, then the return of the result dict
PersistBriefing ==
    /\ wf.pc = "PersistBriefing"
    /\ \E fault \in BOOLEAN :
          LET call == SaveBriefing(briefings, Today, wf.summary, fault)
          IN  /\ briefings' = call.rows
              /\ lastSaved' = IF call.raised THEN lastSaved
                              ELSE [lastSaved EXCEPT ![Today] = wf.summary]
              /\ wf' = IF fault THEN StoreFails(wf, "PersistBriefing")
                       ELSE IF call.raised THEN Raise(wf, "PersistBriefing")
                       ELSE [wf EXCEPT !.pc = "idle", !.saved = TRUE, !.done = "returned",
                                       !.result = WorkflowResult(wf.inserted)]
    /\ UNCHANGED <<serverVars, db, ins, enriched, br, parseVars, queryVars, validVars>>

----------------------------------------------------------------------------
(* Calls of the insert_* functions of the record store *)

\* What every insert_* function does with its table
Insert(kind, batch, fault) ==
    LET call == InsertCall(kind, db[kind], batch, fault)
    IN /\ db' = [db EXCEPT ![kind] = call.table]
       /\ enriched' = IF call.raised THEN enriched
                      ELSE [enriched EXCEPT ![kind] = FlagsAfterInsert(@, db[kind], batch)]
       /\ ins' = [n |-> ins.n + 1, kind |-> kind, batch |-> batch, before |-> db[kind],
                  inserted |-> call.inserted, raised |-> call.raised]

insert_news(articles, fault) ==
    /\ ins.n < MaxInserts
    /\ Insert("news", articles, fault)
    /\ UNCHANGED <<serverVars, restVars, wf>>

insert_funding(rounds, fault) ==
    /\ ins.n < MaxInserts
    /\ Insert("funding", rounds, fault)
    /\ UNCHANGED <<serverVars, restVars, wf>>

insert_launches(launches, fault) ==
    /\ ins.n < MaxInserts
    /\ Insert("launches", launches, fault)
    /\ UNCHANGED <<serverVars, restVars, wf>>

insert_github_repositories(repos, fault) ==
    /\ ins.n < MaxInserts
    /\ Insert("github_repositories", repos, fault)
    /\ UNCHANGED <<serverVars, restVars, wf>>

insert_github_signals(signals, fault) ==
    /\ ins.n < MaxInserts
    /\ Insert("github_signals", signals, fault)
    /\ UNCHANGED <<serverVars, restVars, wf>>

\* What every update_*_enrichment function does with its table; a fault of the
\* storage leaves it as an exception before the commit
Update(kind, rec, hit, fault) ==
    /\ HasRow(enriched[kind], db[kind], rec, hit)
    /\ enriched' = IF fault THEN enriched
                   ELSE [enriched EXCEPT ![kind] = SetEnriched(@, rec, hit)]
    /\ ins' = [NoInsert EXCEPT !.n = ins.n + 1, !.raised = fault]

update_news_enrichment(rec, hit, fault) ==
    /\ ins.n < MaxInserts
    /\ Update("news", rec, hit, fault)
    /\ UNCHANGED <<serverVars, restVars, wf, db>>

update_funding_enrichment(rec, hit, fault) ==
    /\ ins.n < MaxInserts
    /\ Update("funding", rec, hit, fault)
    /\ UNCHANGED <<serverVars, restVars, wf, db>>

update_launch_enrichment(rec, hit, fault) ==
    /\ ins.n < MaxInserts
    /\ Update("launches", rec, hit, fault)
    /\ UNCHANGED <<serverVars, restVars, wf, db>>

update_github_repo_enrichment(rec, hit, fault) ==
    /\ ins.n < MaxInserts
    /\ Update("github_repositories", rec, hit, fault)
    /\ UNCHANGED <<serverVars, restVars, wf, db>>

----------------------------------------------------------------------------
(* The briefing store and GET /briefing, GET /briefing/{date} *)

\* A call of db.save_briefing, as run_full_workflow makes it
save_briefing(briefing_date, summary_text, fault) ==
    /\ br.n < MaxSaves
    /\ LET call == SaveBriefing(briefings, briefing_date, summary_text, fault)
       IN  /\ briefings' = call.rows
           /\ lastSaved' = IF call.raised THEN lastSaved
                           ELSE [lastSaved EXCEPT ![briefing_date] = summary_text]
           /\ br' = [NoBriefingOp EXCEPT !.n = br.n + 1, !.op = "save_briefing",
                                         !.date = briefing_date, !.text = summary_text,
                                         !.raised = call.raised, !.before = briefings]
    /\ UNCHANGED <<serverVars, pipeVars, parseVars, queryVars, validVars>>

\* GET /briefing: HTTPException is re-raised, any other exception becomes 500
GetBriefing(fault) ==
    /\ LET latest_briefing == get_latest_briefing(briefings)
           answer == IF fault THEN [resp |-> 500, body |-> NoRow]
                     ELSE IF latest_briefing # NoRow
                          THEN [resp |-> 200, body |-> latest_briefing]
                          ELSE [resp |-> 404, body |-> NoRow]
       IN  br' = [NoBriefingOp EXCEPT !.n = br.n, !.op = "get_briefing",
                                      !.raised = fault, !.resp = answer.resp,
                                      !.body = answer.body, !.before = briefings]
    /\ UNCHANGED <<serverVars, pipeVars, parseVars, queryVars, validVars, briefings, lastSaved>>

\* GET /briefing/{date}: ValueError of strptime becomes 400; the HTTPException(404)
\* is raised inside the try and there is no `except HTTPException: raise`, so
\* `except Exception` turns it into 500
GetBriefingByDate(date, fault) ==
    /\ LET briefing == get_briefing_by_date(briefings, date)
           answer == IF date = Malformed THEN [resp |-> 400, body |-> NoRow]
                     ELSE IF fault THEN [resp |-> 500, body |-> NoRow]
                     ELSE IF briefing # NoRow THEN [resp |-> 200, body |-> briefing]
                     ELSE [resp |-> 500, body |-> NoRow]
       IN  br' = [NoBriefingOp EXCEPT !.n = br.n, !.op = "get_briefing_by_date",
                                      !.date = date, !.raised = fault,
                                      !.resp = answer.resp, !.body = answer.body,
                                      !.before = briefings]
    /\ UNCHANGED <<serverVars, pipeVars, parseVars, queryVars, validVars, briefings, lastSaved>>

----------------------------------------------------------------------------
(* The extractor on a completion text *)

\* A call of _parse_llm_response on the text, as the unit test makes it
ParseLlmResponse ==
    /\ px.op = "none"
    /\ LET response == px.text
           c == Candidate(response)
           r == parse_llm_response(response)
       IN  px' = [NoParse EXCEPT !.op = "parse", !.text = response, !.found = c.found,
                                 !.json_str = c.json_str, !.payload = r.payload,
                                 !.raised = r.raised]
    /\ UNCHANGED <<serverVars, pipeVars, briefVars, queryVars, validVars>>

\* llm.complete returns the text inside analyze_recent_data
AnalyzeResponse ==
    /\ px.op = "none"
    /\ LET response == px.text
           c == Candidate(response)
           r == parse_llm_response(response)
           a == AnalyzeText(response)
       IN  px' = [NoParse EXCEPT !.op = "analyze", !.text = response, !.found = c.found,
                                 !.json_str = c.json_str, !.payload = r.payload,
                                 !.raised = a.raised, !.status = a.status,
                                 !.results = a.results]
    /\ UNCHANGED <<serverVars, pipeVars, briefVars, queryVars, validVars>>

----------------------------------------------------------------------------
(* The validation on a parsed payload *)

\* A call of _validate_analysis_results on the payload
ValidateAnalysisResults ==
    /\ va.op = "none"
    /\ LET v == ValidateItems(va.results, now)
       IN  va' = [va EXCEPT !.op = "validate", !.raised = v.raised,
                            !.validated = v.validated, !.at = now]
    /\ UNCHANGED <<serverVars, pipeVars, briefVars, parseVars, queryVars>>

\* analyze_recent_data from the return of _parse_llm_response on: the validation,
\* save_analysis_result, and the dict it answers; an exception of the validation or
\* of the store is caught by `except Exception`
AnalyzeParsed(fault) ==
    /\ va.op = "none"
    /\ LET v == ValidateItems(va.results, now)
       IN  va' = [va EXCEPT !.op = "analyze", !.raised = v.raised,
                            !.validated = v.validated, !.at = now,
                            !.saved = ~v.raised /\ ~fault,
                            !.status = IF v.raised \/ fault THEN "error" ELSE "success"]
    /\ UNCHANGED <<serverVars, pipeVars, briefVars, parseVars, queryVars>>

----------------------------------------------------------------------------
(* Calls of the recent-records queries *)

get_recent_news(days, limit) ==
    /\ qry' = GetRecent("news", days, limit)
    /\ UNCHANGED <<serverVars, pipeVars, briefVars, parseVars, validVars>>

get_recent_funding(days, limit) ==
    /\ qry' = GetRecent("funding", days, limit)
    /\ UNCHANGED <<serverVars, pipeVars, briefVars, parseVars, validVars>>

get_recent_launches(days, limit) ==
    /\ qry' = GetRecent("launches", days, limit)
    /\ UNCHANGED <<serverVars, pipeVars, briefVars, parseVars, validVars>>

get_recent_github_repos(days, limit) ==
    /\ qry' = GetRecent("github_repositories", days, limit)
    /\ UNCHANGED <<serverVars, pipeVars, briefVars, parseVars, validVars>>

get_recent_github_signals(days, limit) ==
    /\ qry' = GetRecent("github_signals", days, limit)
    /\ UNCHANGED <<serverVars, pipeVars, briefVars, parseVars, validVars>>

----------------------------------------------------------------------------

\* The control surface with every trigger of a pipeline execution; the clock stands
Next ==
    \/ \E c \in Callers, kind \in {"run", "collect"} : IssueCall(c, kind)
    \/ \E c \in Callers : AcquireLock(c)
    \/ \E c \in Callers : HandleCall(c)
    \/ \E l \in LoopIds : LoopStep(l)
    \/ \E r \in RunIds : RunBegin(r)
    \/ \E r \in RunIds : RunStep(r)
    \/ \E f \in FrequencyInputs, i \in IntervalInputs, b \in BOOLEAN : StartScheduler(f, i, b)
    \/ TriggerNow
    \/ GetRunStatus

Spec == Init /\ [][Next]_vars

\* StartRun and CollectOnly alone.  The run task is on the event loop and the
\* awaited orchestrator call returns or raises in the end (its network calls carry
\* timeouts), hence weak fairness of the step that ends a run.
NextManual ==
    \/ \E c \in Callers, kind \in {"run", "collect"} : IssueCall(c, kind)
    \/ \E c \in Callers : AcquireLock(c)
    \/ \E c \in Callers : HandleCall(c)
    \/ \E r \in RunIds : RunStep(r)

SpecManual == Init /\ [][NextManual]_vars /\ WF_vars(\E r \in RunIds : RunStep(r))

\* The scheduler under the clock
NextSched ==
    \/ Tick
    \/ \E l \in LoopIds : LoopStep(l)
    \/ \E l \in LoopIds : LoopCancel(l)
    \/ \E r \in RunIds : RunBegin(r)
    \/ \E r \in RunIds : RunStep(r)
    \/ \E f \in FrequencyInputs, i \in IntervalInputs, b \in BOOLEAN : StartScheduler(f, i, b)
    \/ StopScheduler
    \/ StopResume
    \/ TriggerNow
    \/ GetRunStatus

SpecSched == Init /\ [][NextSched]_vars

\* The scheduler once started and never stopped.  Time passes, the loop task is on
\* the event loop and is resumed when its sleep is over, and every run terminates
\* (the hypothesis of the recurrence): weak fairness of the three steps.
NextRecur ==
    \/ Tick
    \/ \E l \in LoopIds : LoopStep(l)
    \/ \E r \in RunIds : RunBegin(r)
    \/ \E r \in RunIds : RunStep(r)
    \/ \E f \in FrequencyInputs, i \in IntervalInputs, b \in BOOLEAN : StartScheduler(f, i, b)
    \/ TriggerNow

SpecRecur ==
    /\ Init /\ [][NextRecur]_vars
    /\ WF_vars(Tick)
    /\ WF_vars(\E l \in LoopIds : LoopStep(l))
    /\ WF_vars(\E r \in RunIds : RunStep(r))

\* The pipeline runner on its own
NextPipeline ==
    \/ WorkflowStart
    \/ \E c \in Collectors : CollectorReturns(c)
    \/ CollectAllData
    \/ Store
    \/ Enrich
    \/ Analyze
    \/ Summarize
    \/ PersistBriefing

SpecPipeline == Init /\ [][NextPipeline]_vars

\* The record store on its own
NextStore ==
    \/ \E b \in Batches, fault \in BOOLEAN : insert_news(b, fault)
    \/ \E b \in Batches, fault \in BOOLEAN : insert_funding(b, fault)
    \/ \E b \in Batches, fault \in BOOLEAN : insert_launches(b, fault)
    \/ \E b \in Batches, fault \in BOOLEAN : insert_github_repositories(b, fault)
    \/ \E b \in Batches, fault \in BOOLEAN : insert_github_signals(b, fault)
    \/ \E r \in Records, h \in Hits, fault \in BOOLEAN : update_news_enrichment(r, h, fault)
    \/ \E r \in Records, h \in Hits, fault \in BOOLEAN : update_funding_enrichment(r, h, fault)
    \/ \E r \in Records, h \in Hits, fault \in BOOLEAN : update_launch_enrichment(r, h, fault)
    \/ \E r \in Records, h \in Hits, fault \in BOOLEAN :
          update_github_repo_enrichment(r, h, fault)

SpecStore == Init /\ [][NextStore]_vars

\* The briefing store and its two read endpoints
NextBriefing ==
    \/ \E d \in Dates, t \in SummaryInputs, fault \in BOOLEAN : save_briefing(d, t, fault)
    \/ \E fault \in BOOLEAN : GetBriefing(fault)
    \/ \E d \in Dates \cup {Malformed}, fault \in BOOLEAN : GetBriefingByDate(d, fault)

SpecBriefing == Init /\ [][NextBriefing]_vars

\* The extractor and the analysis built on it, on every text of the bound
NextExtract ==
    \/ ParseLlmResponse
    \/ AnalyzeResponse

SpecExtract == InitExtract /\ [][NextExtract]_vars

\* The validation and the analysis built on it, on every payload of the bound
NextValidate ==
    \/ ValidateAnalysisResults
    \/ \E fault \in BOOLEAN : AnalyzeParsed(fault)

SpecValidate == InitValidate /\ [][NextValidate]_vars

\* The recent-records queries on their own
NextQuery ==
    \/ \E d \in DaysInputs, l \in LimitInputs : get_recent_news(d, l)
    \/ \E d \in DaysInputs, l \in LimitInputs : get_recent_funding(d, l)
    \/ \E d \in DaysInputs, l \in LimitInputs : get_recent_launches(d, l)
    \/ \E d \in DaysInputs, l \in LimitInputs : get_recent_github_repos(d, l)
    \/ \E d \in DaysInputs, l \in LimitInputs : get_recent_github_signals(d, l)

SpecQuery == Init /\ [][NextQuery]_vars
----------------------------------------------------------------------------
(* Claims about the single-flight guard and the scheduler *)

AliveLoops == {l \in LoopIds : loops[l].pc # "free"}
SchedulerRan == ev.op = "RunEnd" /\ ev.origin \in {"loop", "trigger"}

\* C1: at most one pipeline run is in flight, whatever triggers started the runs
\* (StartRun, CollectOnly, a loop tick, run_immediately, Trigger).
C1_AtMostOneRunInFlight == Cardinality(InFlight(runs)) <= 1

\* C2: when two calls of StartRun / CollectOnly race from an idle server (both are in
\* progress together, none saw a run in flight, and the winner's run has not ended
\* before the loser is answered), exactly one is answered 'started' and the other 409,
\* and exactly one run was started: the loser started none and is not kept waiting.
C2_ExactlyOneAccepted ==
    racing =>
        /\ Cardinality(ManualRuns(runs)) <= 1
        /\ (\A c \in Callers : calls[c].pc = "idle") =>
               /\ \E c \in Callers : calls[c].resp = 200 /\ calls[Other(c)].resp = 409
               /\ Cardinality(ManualRuns(runs)) = 1

C2_Witness ==
    /\ racing
    /\ calls["c1"].pc = "idle" /\ calls["c1"].kind = "run" /\ calls["c1"].resp = 409
    /\ calls["c2"].pc = "idle" /\ calls["c2"].kind = "collect" /\ calls["c2"].resp = 200

\* C3: after a scheduler-driven run completes, last_run is the completion time and
\* next_run is completion time + interval_seconds.
C3_LastRunIsCompletionTime ==
    (SchedulerRan /\ ev.ok) =>
        /\ sched.last_run = now
        /\ sched.next_run = now + sched.interval_seconds

\* C4: Stop() never interrupts a scheduler-driven run that is in flight; the run goes
\* on to its end.
C4_StopLetsRunFinish == ~(ev.op = "LoopCancel" /\ ev.origin = "loop")

\* C5: when the runner raises during a scheduler-driven run, last_run keeps the value
\* it had before that run started.
C5_FailedRunKeepsLastRun ==
    (ev.op = "RunEnd" /\ ev.origin \in {"loop", "trigger", "immediate"} /\ ~ev.ok) =>
        sched.last_run = ev.prev

\* C6: Start with frequency=custom and no interval_seconds is answered InvalidArgument
\* (400) and leaves the scheduler state and the loop tasks as they were.
C6_CustomWithoutIntervalRejected ==
    (ev.op = "StartScheduler" /\ ev.freq = "custom" /\ ev.ivl = Null) =>
        /\ ev.resp = 400
        /\ sched = ev.pre

\* C7: StartScheduler while the scheduler is Running is answered Conflict (409) and
\* nothing else, changes no field, and at most one loop task is ever alive.
C7_StartWhileRunningIsConflict ==
    /\ (ev.op = "StartScheduler" /\ ev.pre.is_running /\ ev.resp # 422) =>
           /\ ev.resp = 409
           /\ sched = ev.pre
    /\ Cardinality(AliveLoops) <= 1

\* C14: a Trigger answered while the scheduler is Running has performed exactly one
\* execution, and on its return last_run is the value that execution set and
\* next_run is that value + interval_seconds; a Trigger while the scheduler is not
\* Running is answered NotRunning (404), starts no execution and changes no field.
C14_TriggerRunsOnceAndReschedules ==
    /\ (ev.op = "RunEnd" /\ ev.origin = "trigger") =>
           /\ ev.resp = 200
           /\ sched.last_run = ev.t0
           /\ sched.next_run = ev.t0 + sched.interval_seconds
    /\ (ev.op = "Trigger" /\ ev.resp = 404) =>
           /\ sched = ev.pre
           /\ \A r \in RunIds : runs[r].origin # "trigger"

\* A Stop has returned and no Start was accepted since
StoppedNow == sched.exists /\ ~sched.is_running /\ stopPc = "idle"

\* This step starts a scheduler-driven execution in slot r
StartsExecution(r) ==
    /\ runs'[r].origin \in {"loop", "trigger", "immediate"}
    /\ \/ runs[r].origin = "none"
       \/ runs[r].origin = "loop" /\ ev'.op = "RunEnd" /\ ev'.origin = "loop" /\ ev'.fired

\* C15: a StopScheduler answered 'stopped' leaves is_running false, enabled false and
\* no loop task, and from its return to the next accepted Start no scheduler-driven
\* execution starts; a StopScheduler while the scheduler is not Running is answered
\* NotRunning (404) and changes nothing.
C15_StopLeavesStopped ==
    /\ []((ev.op = "StopScheduler" /\ ev.resp = 200 /\ ~sched.is_running) =>
            /\ ~sched.enabled
            /\ sched.scheduled_task = NoTask
            /\ AliveLoops = {})
    /\ []((ev.op = "StopScheduler" /\ ev.resp = 404) => sched = ev.pre)
    /\ [][(StoppedNow /\ ~sched'.is_running) =>
            \A r \in RunIds : ~StartsExecution(r)]_vars

\* C16: when a run accepted by StartRun or CollectOnly ends, by returning or by
\* raising, workflow_status.running is false, and error holds the failure when it
\* raised; running is true only while such a run is in flight; and every accepted
\* run is eventually followed by a state in which running is false.
C16_RunningClearedWhenRunEnds ==
    /\ []((ev.op = "RunEnd" /\ ev.origin \in {"run", "collect"}) =>
            /\ ~workflow_status.running
            /\ ~ev.ok => workflow_status.error = "exception")
    /\ [](workflow_status.running => ManualRuns(runs) # {})
    /\ (ManualRuns(runs) # {}) ~> ~workflow_status.running

C16_Witness ==
    /\ ev.op = "RunEnd" /\ ev.origin = "collect" /\ ~ev.ok
    /\ ~workflow_status.running
    /\ workflow_status.error = "exception"
    /\ ManualRuns(runs) = {}

\* interval_seconds values below the minimum, and the frequencies of the table
ShortIntervals == {-5, 0, 30}
TableFrequencies == {"hourly", "daily", "weekly"}
TableInterval(frequency) ==
    CASE frequency = "hourly" -> 3600
      [] frequency = "daily" -> 86400
      [] OTHER -> 604800

\* C18: a Start on a stopped scheduler with frequency=custom and interval_seconds
\* below 60 (0 and negative values included) is rejected as InvalidArgument (400 or
\* 422) and leaves the scheduler as it was; with 60 or more it is accepted and that
\* value is the interval; with hourly, daily or weekly it is accepted with 3600, 86400
\* or 604800 whatever interval_seconds is supplied.
C18_IntervalRule ==
    /\ (ev.op = "StartScheduler" /\ ~ev.pre.is_running) =>
           /\ (ev.freq = "custom" /\ ev.ivl # Null /\ ev.ivl < 60) =>
                  ev.resp \in {400, 422} /\ sched = ev.pre
           /\ (ev.freq = "custom" /\ ev.ivl >= 60) =>
                  ev.resp = 200 /\ sched.is_running /\ sched.interval_seconds = ev.ivl
           /\ ev.freq \in TableFrequencies =>
                  /\ ev.resp = 200 /\ sched.is_running
                  /\ sched.interval_seconds = TableInterval(ev.freq)
    /\ \A i \in ShortIntervals : StartPrecheck(NoScheduler, "custom", i) \in {400, 422}
    /\ \A f \in TableFrequencies, i \in ShortIntervals \cup IntervalInputs :
           IntervalFor(f, i) = TableInterval(f)

\* C20: while the scheduler is Running, every execution the loop starts is started
\* at or after the current next_run, and the end of a run of the loop, however long
\* the run took, is not itself the start of the next one; this holds whether or not a
\* Trigger recomputed next_run while the loop was waiting.
C20_LoopNeverFiresEarly ==
    [][\A r \in RunIds :
          (sched.is_running /\ StartsExecution(r) /\ runs'[r].origin = "loop") =>
              /\ sched'.next_run # Null
              /\ now >= sched'.next_run
              /\ runs[r].origin = "none"]_vars

\* C21: every accepted Start leaves the scheduler Running with next_run = now +
\* interval_seconds, now being the time of the Start: a first Start, a Start with
\* run_immediately, and a Start after a Stop on a scheduler that has executed runs.
C21_StartSchedulesFromNow ==
    (ev.op = "StartScheduler" /\ ev.resp = 200) =>
        /\ sched.is_running
        /\ sched.next_run = now + sched.interval_seconds

\* `await asyncio.sleep(300)` of the loop's `except Exception`
ERROR_BACKOFF_SECONDS == 300

\* C22: when a run started by the loop ends with an exception, the loop does not
\* start its next execution in that step; it is left waiting, and its wait ends a
\* fixed backoff after the failure.
C22_FailureBacksOff ==
    (ev.op = "RunEnd" /\ ev.origin = "loop" /\ ~ev.ok /\ sched.enabled) =>
        /\ ~ev.fired
        /\ \A l \in AliveLoops :
               loops[l].pc = "sleep" /\ loops[l].wake = now + ERROR_BACKOFF_SECONDS

\* C29: whenever no stop() is under way, after any calls of start, stop and
\* trigger_now (rejected ones included), enabled equals is_running, and is_running
\* is true exactly when a loop task of the scheduler exists.
C29_FlagsMatchLoopTask ==
    stopPc = "idle" =>
        /\ sched.enabled = sched.is_running
        /\ sched.is_running <=> AliveLoops # {}

\* C30: the status read reports running = true in every state in which a pipeline
\* run is executing, whatever started the run (StartRun, CollectOnly, a tick of the
\* loop, run_immediately, Trigger), and the read changes nothing: neither the lock
\* nor any other part of the state.
C30_StatusShowsEveryRun ==
    /\ []((ev.op = "GetRunStatus" /\ InFlight(runs) # {}) => ev.pre.running)
    /\ [][ev'.op = "GetRunStatus" =>
            UNCHANGED <<now, workflow_status, workflow_lock, calls, racing, sched, loops,
                        runs, stopPc, trigPc, apiCalls, pipeVars, restVars>>]_vars

\* The instants of the clock
Times == {t \in 0..MaxTime : t % TimeStep = 0}
\* The clock of the model gets as far as t
ClockReaches(t) == \E u \in Times : u >= t
\* A run started by the loop has just ended
LoopRunEnded == ev.op = "RunEnd" /\ ev.origin = "loop"
\* A run started by the loop at t or later is in flight
LoopRunSince(t) == \E r \in RunIds : runs[r].origin = "loop" /\ runs[r].t0 >= t

\* C23: with the scheduler Running and never stopped, and every run terminating
\* (by returning or by raising), each end of a run of the loop whose next_run the
\* clock can reach is followed by the start of another run of the loop.
C23_ExecutionsRecur ==
    \A t \in Times :
       (LoopRunEnded /\ sched.is_running /\ now = t /\ ClockReaches(sched.next_run))
           ~> LoopRunSince(t)

C23_Witness ==
    /\ sched.is_running /\ sched.interval_seconds = 60
    /\ \E r \in RunIds : runs[r] = NewRun("loop", TRUE, MaxTime, 60, 1)
    /\ loops[1].pc = "run"

----------------------------------------------------------------------------
(* Claims about the pipeline runner and the record store *)

\* collect_all_data has returned in the execution at hand
Gathered == wf.n > 0 /\ wf.pc # "Collect"
\* collector c raised out of its coroutine and the other two did not
OnlyThrows(c) ==
    /\ wf.outcome[c] = "throws"
    /\ \A d \in Collectors \ {c} : wf.outcome[d] \in {"data", "unreachable"}
\* the record lists of a slot are all empty
EmptySlot(c, slot) ==
    CASE c = "news" -> slot.articles = <<>>
      [] c = "startup" -> slot.funding = <<>> /\ slot.launches = <<>>
      [] OTHER -> slot.trending = <<>> /\ slot.signals = <<>>

\* C8: run_full_workflow never raises; it returns a result whose status is
\* success or error, and a success result carries the duration and the counts
C8_AlwaysStructuredResult ==
    /\ wf.done # "raised"
    /\ wf.done = "returned" =>
          /\ wf.result.status \in {"success", "error"}
          /\ wf.result.status = "success" =>
                /\ {"duration_seconds", "data_collected"} \subseteq wf.result.keys
                /\ wf.result.data_collected = wf.inserted

\* C9: when exactly one collector throws, the other two slots hold what their
\* collectors returned, the failing slot is empty and carries an error tag, the
\* slots are exactly news, startup and github, and a run that returns reports success
C9_FailingSlotErrorTagged ==
    \A c \in Collectors :
       (Gathered /\ OnlyThrows(c)) =>
          /\ DOMAIN wf.collected = Collectors
          /\ \A d \in Collectors \ {c} : wf.collected[d] = wf.fetched[d]
          /\ EmptySlot(c, wf.collected[c])
          /\ "error" \in wf.collected[c].keys
          /\ wf.failed # "Collect"
          /\ wf.done = "returned" => wf.result.status = "success"

\* every record of the batch of the last insert_* call was stored before the call
AllStored == \A i \in 1..Len(ins.batch) : ins.before[ins.batch[i]] > 0

\* C10: for every kind, an insert_* call whose records are all stored already
\* returns 0, leaves the table as it was and raises nothing
C10_ReinsertAddsNothing ==
    (ins.kind # "none" /\ ins.batch # <<>> /\ AllStored /\ ~ins.raised) =>
       /\ ins.inserted = 0
       /\ db[ins.kind] = ins.before

\* The stages of run_full_workflow in the order of its awaits
StageOrder == <<"Collect", "Store", "Enrich", "Analyze", "Summarize", "PersistBriefing">>
StageIndex(stage) == CHOOSE i \in 1..Len(StageOrder) : StageOrder[i] = stage
\* The stage that begins when `stage` has finished; "idle" is the return
StageAfter(stage) ==
    IF stage = "idle" THEN "Collect"
    ELSE IF StageIndex(stage) = Len(StageOrder) THEN "idle"
    ELSE StageOrder[StageIndex(stage) + 1]
\* No fetch of the gather is still under way
FetchesDone == \A c \in Collectors : wf.outcome[c] # "pending"

\* C24: in every execution of run_full_workflow a stage begins only in the step
\* that finishes the stage before it in the order Collect, Store, Enrich, Analyze,
\* Summarize, PersistBriefing (an exception ends the execution instead), and Store
\* begins only when each of the three fetches has returned or failed.
C24_StagesInOrder ==
    /\ [][wf'.pc # wf.pc =>
            /\ wf'.pc \in {StageAfter(wf.pc), "idle"}
            /\ wf'.pc = "idle" => (wf'.done = "raised" \/ wf.pc = "PersistBriefing")
            /\ wf'.pc = "Store" => FetchesDone]_vars
    /\ [](wf.pc \notin {"idle", "Collect"} => FetchesDone)
    /\ [](wf.done = "returned" => FetchesDone /\ wf.analysis # "none" /\ wf.saved)

C24_Witness ==
    /\ wf.done = "returned" /\ wf.saved
    /\ wf.outcome["news"] = "data" /\ wf.outcome["startup"] = "unreachable"
    /\ wf.outcome["github"] = "throws"
    /\ wf.inserted["news"] = 1 /\ wf.analysis = "success" /\ wf.summary = "completion"


\* C28: across insert_* and update_*_enrichment calls in any order no stored
\* record is deleted (the rows of each kind never become fewer) and no is_enriched
\* flag goes back from 1 to 0 (the enriched rows never become fewer); a flag is set
\* on stored rows only.
C28_RecordsKeptFlagsMonotone ==
    /\ [][\A k \in Kinds, r \in Records :
            /\ db'[k][r] >= db[k][r]
            /\ enriched'[k][r] >= enriched[k][r]]_vars
    /\ [](\A k \in Kinds, r \in Records : enriched[k][r] <= db[k][r])
    /\ [](\A r \in Records : enriched["github_signals"][r] = 0)

C28_Witness ==
    /\ ins.kind = "news" /\ ins.batch = <<"k1", "k2">> /\ ~ins.raised
    /\ ins.before["k1"] = 1 /\ ins.inserted = 1
    /\ db["news"]["k1"] = 1 /\ enriched["news"]["k1"] = 1 /\ enriched["news"]["k2"] = 0

----------------------------------------------------------------------------
(* Claims about the briefing store *)

\* C11: after any sequence of save_briefing calls the table holds exactly one row
\* for every date a save committed for and none for any other date, and that row
\* holds the summary of the latest committed save for the date: a second save for
\* the same date replaces the row rather than adding one
C11_OneRowPerDateLatestContent ==
    \A d \in Dates :
       IF lastSaved[d] = NoText
       THEN RowsOf(briefings, d) = <<>>
       ELSE RowsOf(briefings, d) = <<BriefingRow(d, lastSaved[d])>>

C11_Witness ==
    /\ br.op = "save_briefing" /\ ~br.raised
    /\ RowsOf(br.before, br.date) # <<>>
    /\ RowsOf(br.before, br.date)[1].summary_text # br.text
    /\ Len(briefings) = MaxDates

\* C17: with the store answering, GetBriefing() is answered NotFound (404) when no
\* briefing is stored and otherwise returns the stored briefing of the greatest date;
\* GetBriefing(date) for a well-formed date is answered NotFound (404) when no
\* briefing is stored for the date and otherwise returns the briefing saved for it.
C17_BriefingFoundOrNotFound ==
    /\ (br.op = "get_briefing" /\ ~br.raised) =>
           IF br.before = <<>>
           THEN br.resp = 404
           ELSE /\ br.resp = 200
                /\ \E i \in 1..Len(br.before) : br.before[i] = br.body
                /\ \A i \in 1..Len(br.before) :
                       br.before[i].briefing_date <= br.body.briefing_date
    /\ (br.op = "get_briefing_by_date" /\ br.date # Malformed /\ ~br.raised) =>
           IF lastSaved[br.date] = NoText
           THEN br.resp = 404
           ELSE br.resp = 200 /\ br.body = BriefingRow(br.date, lastSaved[br.date])

----------------------------------------------------------------------------
(* Claims about the stages that use the text completion *)

\* the execution at hand has left the stage
Past(stage) ==
    LET order == <<"Collect", "Store", "Enrich", "Analyze", "Summarize", "PersistBriefing">>
        at(x) == CHOOSE i \in 1..Len(order) : order[i] = x
    IN  \/ wf.done = "returned"
        \/ wf.pc # "idle" /\ at(wf.pc) > at(stage)
        \/ wf.done = "raised" /\ at(wf.failed) > at(stage)

C13_ExtractorNeverRaises ==
    px.op # "none" =>
        /\ ~px.raised
        /\ px.payload # NoPayload
        /\ (~px.found \/ ~JsonLoads(px.json_str).ok) => px.payload = EmptySchema
        /\ (px.op = "analyze" /\ (px.payload.type # "dict" \/ px.payload.bad)) =>
               px.status = "error" /\ px.results = EmptySchema

C13_Witness ==
    /\ px.op = "analyze"
    /\ px.text = <<"x", "F", "x", "F", "{">>
    /\ px.found /\ px.json_str = <<"x">>
    /\ px.payload = EmptySchema /\ ~px.raised

\* C25: the extractor uses the candidate of the first strategy that yields one, in
\* the order: the block after the first json-tagged fence when a fence closes it,
\* the block after the first fence of any kind when a fence closes it, the text from
\* the first '{' to the last '}' when the latter follows the former; an unclosed
\* fence falls through to the later strategies; and a candidate that parses is
\* returned as parsed.
C25_StrategiesInOrder ==
    px.op = "parse" =>
        LET text == px.text
            none == [found |-> FALSE, json_str |-> <<>>]
            tagged == IF Find(text, {"FJ"}, 1) # 0
                      THEN Fenced(text, Find(text, {"FJ"}, 1)) ELSE none
            fenced == IF Find(text, AnyFence, 1) # 0
                      THEN Fenced(text, Find(text, AnyFence, 1)) ELSE none
            first == Find(text, {"{"}, 1)
            last == RFind(text, {"}"})
            braces == IF first # 0 /\ last > first
                      THEN [found |-> TRUE, json_str |-> SubSeq(text, first, last)]
                      ELSE none
            chosen == IF tagged.found THEN tagged
                      ELSE IF fenced.found THEN fenced ELSE braces
        IN  /\ px.found = chosen.found
            /\ px.found => px.json_str = chosen.json_str
            /\ (chosen.found /\ JsonLoads(chosen.json_str).ok) =>
                   px.payload = JsonLoads(chosen.json_str).value

\* C26: for every parsed payload the validation returns an object that holds the
\* four canonical keys and no other; under each it holds the first 20 / 20 / 15 / 15
\* items of the payload's list in their order (25 trends give 20), and an empty list
\* where the payload had no such key; and the validation of the object it returned
\* returns the same object.
C26_ValidationNormalises ==
    va.op # "none" =>
        LET out == va.validated.members
            cap(k) == IF k \in {"trends", "competitor_moves"} THEN 20 ELSE 15
            kept(k) == IF va.results.members[k].kind = "absent" THEN 0
                       ELSE IF Len(va.results.members[k].items) < cap(k)
                            THEN Len(va.results.members[k].items) ELSE cap(k)
        IN  /\ ~va.raised
            /\ va.validated.type = "dict"
            /\ \A k \in PayloadKeys : out[k].kind = "list" <=> k \in CanonicalKeys
            /\ \A k \in CanonicalKeys :
                   /\ Len(out[k].items) = kept(k)
                   /\ \A i \in 1..kept(k) :
                          out[k].items[i].id = va.results.members[k].items[i].id
            /\ Len(va.results.members["trends"].items) = 25 =>
                   Len(out["trends"].items) = 20
            /\ ValidateItems(va.validated, va.at) =
                   [validated |-> va.validated, raised |-> FALSE]

\* C27: every item of every list the validation returned, and so of every payload
\* the analysis saved, holds a creation time: the time of the validation when the
\* item came without one, and the value it came with otherwise.
C27_EveryItemStamped ==
    (va.op # "none" /\ ~va.raised) =>
        \A k \in CanonicalKeys :
           \A i \in 1..Len(va.validated.members[k].items) :
              LET before == va.results.members[k].items[i]
                  after == va.validated.members[k].items[i]
                  had == before.has_created_at /\ before.created_at # Null
              IN  /\ after.has_created_at
                  /\ after.created_at # Null
                  /\ after.created_at = IF had THEN before.created_at ELSE va.at

----------------------------------------------------------------------------
(* Claims about the recent-records queries *)

\* C19: each of the five recent-records queries raises, without reading the store,
\* when days is no integer of 1..365 or a limit is given that is no integer of
\* 1..10000, and otherwise reads the store and raises nothing; a limit of None
\* is accepted
C19_DaysAndLimitValidated ==
    qry.kind # "none" =>
        LET daysOk == qry.days.type = "int" /\ qry.days.v \in 1..365
            limitOk == \/ qry.limit = PyNone
                       \/ qry.limit.type = "int" /\ qry.limit.v \in 1..10000
        IN  /\ qry.raised <=> ~(daysOk /\ limitOk)
            /\ qry.read <=> ~qry.raised

C19_Witness ==
    /\ qry.kind = "github_signals"
    /\ qry.days = PyInt(366) /\ qry.limit = PyNone
    /\ qry.raised /\ ~qry.read
====
